---- MODULE Spec2Model ----
(***************************************************************************)
(* A model of the two MoviePilot plugins of this repository:               *)
(*   plugins.v2/doubanrank/__init__.py          (class DoubanRank)         *)
(*   plugins.v2/tmdbtrendssubscribe/__init__.py (class TmdbTrendsSubscribe)*)
(* Each behaviour is about one plugin instance (the variable plugin), its  *)
(* host thread (init_plugin / stop_service), its administrative endpoints  *)
(* and up to MaxRuns concurrently executing runs of its run entry point    *)
(* (refresh_douban / check_and_subscribe).  The backends the plugins call  *)
(* (recognition, library, subscription, notification, key-value store,     *)
(* file system) answer nondeterministically: a result, or an exception.    *)
(***************************************************************************)
EXTENDS Integers, Sequences, FiniteSets, TLC

(* ------------------------------ bounds -------------------------------- *)

\* Number of run slots: how many runs may be in flight at the same time.
MaxRuns == 2

\* Number of catalog items that pass the rating filter (ids 1..NItems).
NItems == 2

\* The history list keeps its last HistoryCap records.  The source keeps the
\* last 500 (history[-500:]); the model scales the cap down so that an
\* append beyond the cap happens within the bounds.
HistoryCap == 1

\* Ratings and thresholds of the rating filter, taken on its own, range over
\* 0..MaxRate.
MaxRate == 9

\* A fetched payload lists up to MaxEntries entries.
MaxEntries == 2

\* delete_history, taken on its own, is applied to stored lists of up to
\* MaxStored records (the source keeps up to 500).
MaxStored == 2

(* --------------------------- configuration ---------------------------- *)

\* The rating threshold in force (DoubanRank._vote, TmdbTrendsSubscribe.
\* _min_rating), in tenths of a point.
Vote == 70

\* The per-category count of TmdbTrendsSubscribe._categories.
Count == 5

\* settings.API_TOKEN and the tokens a caller may present.
API_TOKEN == "token"

ApiKeys == {"token", "wrong"}

(* ------------------------------ catalog ------------------------------- *)

\* An item the source rates below the threshold.
LowItem == NItems + 1

Rate(i) == IF i = LowItem THEN 50 ELSE 82

\* What a successful fetch of category c yields: the ids of its items, in
\* page order.  The last item of category 1 is listed by category 2 as well.
Catalog(c) ==
  IF c = 1 THEN [i \in 1..NItems |-> i] ELSE <<LowItem, NItems>>

ItemIds == 1..(NItems + 1)

\* The catalog item with id i as the fetch normalises it.
Item(i) == [id |-> i, title |-> i, rate |-> Rate(i)]

Runs == 1..MaxRuns

(* ------------------------------- state -------------------------------- *)

VARIABLES
  plugin,         \* "douban" | "tmdb": the plugin this behaviour is about
  ranks,          \* DoubanRank._ranks / the enabled entries of
                  \* TmdbTrendsSubscribe._categories: the categories a run
                  \* walks through, in order (the same in every config of a
                  \* behaviour)
  audit,          \* whether this behaviour keeps the history variables
                  \* stopReq and recorded up to date
  enabled,        \* self._enabled
  onlyonce,       \* self._onlyonce / self._only_once
  clear_history,  \* DoubanRank._clear_history
  notify,         \* self._notify
  scheduler,      \* self._scheduler: "none" | "running"
  jobs,           \* the jobs of self._scheduler: a subset of {"cron", "once"}
  event,          \* DoubanRank._event (the cancellation flag)
  hostpc,         \* the host thread: "idle", or inside scheduler.shutdown()
                  \* of a stop_service ("stop") or of an init_plugin ("init")
  pending,        \* the config an init_plugin in progress still has to load
  del,            \* DoubanRank: the delete_history call in progress: its
                  \* position and its local list historys
  history,        \* DoubanRank: the plugin data 'history'
  processed_ids,  \* TmdbTrendsSubscribe._processed_ids
  file_exists,    \* TmdbTrendsSubscribe: processed_ids.txt exists
  file_lines,     \* TmdbTrendsSubscribe: the lines of processed_ids.txt
  subs,           \* the subscription backend: the media subscribed
  run,            \* per run slot: position and locals of the run
  stopReq,        \* per run slot: a stop was requested while the run was active
  recorded,       \* the keys marked processed since the last clear
  call,           \* a function of the plugin applied on its own: the function
                  \* and its arguments
  ret             \* what that application gave

cfgVars   == <<enabled, onlyonce, clear_history, notify>>
hostVars  == <<scheduler, jobs, event, hostpc, pending, del>>
storeVars == <<history, processed_ids, file_exists, file_lines>>
constVars == <<plugin, ranks, audit, call, ret>>
vars == <<constVars, cfgVars, hostVars, storeVars, subs, run, stopReq, recorded>>

\* The configurations the host may hand to init_plugin.
Configs == [enabled : BOOLEAN, onlyonce : BOOLEAN,
            clear_history : BOOLEAN, notify : BOOLEAN]

NoConfig == [enabled |-> FALSE, onlyonce |-> FALSE,
             clear_history |-> FALSE, notify |-> TRUE]

NoCall == [fn |-> "none"]

NoRet == [outcome |-> "none"]

NoDelete == [pc |-> "idle", historys |-> <<>>]

IdleRun == [pc |-> "idle", src |-> "none", ci |-> 0, ii |-> 0,
            added |-> <<>>, hist |-> <<>>, exist_flag |-> FALSE,
            addres |-> "none", checks |-> {}, notes |-> <<>>, outcome |-> "none"]

\* The state after construction, with the categories selected.
InitWith(selected, audited) ==
  /\ plugin \in {"douban", "tmdb"}
  /\ ranks = selected
  /\ audit = audited
  /\ enabled = FALSE
  /\ onlyonce = FALSE
  /\ clear_history = FALSE
  /\ notify = TRUE
  /\ scheduler = "none"
  /\ jobs = {}
  /\ event = FALSE
  /\ hostpc = "idle"
  /\ pending = NoConfig
  /\ del = NoDelete
  /\ history = <<>>
  /\ processed_ids = {}
  /\ file_exists = FALSE
  /\ file_lines = {}
  /\ subs = {}
  /\ run = [r \in Runs |-> IdleRun]
  /\ stopReq = [r \in Runs |-> FALSE]
  /\ recorded = {}
  /\ call = NoCall
  /\ ret = NoRet

Init == InitWith(<<1, 2>>, TRUE)

(* ------------------------------ helpers ------------------------------- *)

Active(r) == run[r].pc # "idle"

\* The item run r is at.
CurId(r) == Catalog(ranks[run[r].ci])[run[r].ii]

\* The last n elements of s: s[-n:].
LastN(s, n) == IF Len(s) <= n THEN s ELSE SubSeq(s, Len(s) - n + 1, Len(s))

\* The first n elements of s: s[:n].
FirstN(s, n) == IF Len(s) <= n THEN s ELSE SubSeq(s, 1, n)

\* f"doubanrank: {title} (DB:{douban_id})"
unique_flag(title, douban_id) == <<"doubanrank", title, douban_id>>

\* f"{media_type}_{item.get('id')}"
media_id(media_type, id) == <<media_type, id>>

\* TmdbTrendsSubscribe: the media type a category key starts with.  Both
\* categories of the model are movie categories.
media_type(c) == "movie"

\* The dedup key of item i under the plugin of this behaviour.
KeyOf(i) ==
  IF plugin = "douban" THEN unique_flag(Item(i).title, Item(i).id)
                       ELSE media_id(media_type(1), Item(i).id)

\* markProcessed(key) has completed.
Recorded(key) == IF audit THEN recorded \cup {key} ELSE recorded

\* The HistoryRecord DoubanRank.__save_history appends (its time left out).
HistoryRecord(i) ==
  [title |-> Item(i).title, doubanid |-> Item(i).id, tmdbid |-> i,
   vote |-> Item(i).rate, unique |-> unique_flag(Item(i).title, Item(i).id)]

(* ----------------------- positions of a run ---------------------------- *)

\* Run r moves on to the next item of its category (continue / end of the
\* loop body): back to the head of the item loop.
NextItem(r) ==
  [run[r] EXCEPT !.pc = "boundary", !.ii = @ + 1, !.hist = <<>>,
                 !.exist_flag = FALSE, !.addres = "none", !.checks = {}]

\* Run r moves on to the next category: back to the head of the category loop.
NextCategory(r) ==
  [run[r] EXCEPT !.pc = "fetch", !.ci = @ + 1, !.ii = 0, !.hist = <<>>,
                 !.exist_flag = FALSE, !.addres = "none", !.checks = {}]

\* Run r is leaving its entry point: it returns normally ("returned"),
\* returns at the cancellation check ("cancelled") or raises to its caller
\* ("raised").
Finished(r, how, notes) ==
  [run[r] EXCEPT !.pc = "return", !.ii = 0, !.hist = <<>>,
                 !.exist_flag = FALSE, !.addres = "none", !.checks = {},
                 !.outcome = how, !.notes = notes]

\* A run starts in slot r, started the way src says: "cron" (the plugin's own
\* scheduler job), "service" (the job get_service gave the host) or "once"
\* (the run-once trigger).
Started(src) == [IdleRun EXCEPT !.pc = "fetch", !.src = src, !.ci = 1]

\* The outcomes of a backend call that answers yes or no, or raises.
Answers == {"yes", "no", "raise"}

\* Run r has left its entry point: its thread, or its scheduler job, is over.
run_return(r) ==
  /\ run[r].pc = "return"
  /\ run' = [run EXCEPT ![r] = IdleRun]
  /\ stopReq' = [stopReq EXCEPT ![r] = FALSE]
  /\ UNCHANGED <<constVars, cfgVars, hostVars, storeVars, subs, recorded>>

(* ------------------------ DoubanRank: one run ------------------------- *)

\* __get_douban_data: the items of the category, or [] when the request, the
\* status or the parsing failed (every exception is caught inside).
get_douban_data(c) == {<<>>, Catalog(c)}

\* The rating filter with "<=" for "<".
douban_passes_strict(vote, threshold) == ~(threshold # 0 /\ vote <= threshold)

\* refresh_douban's rating filter: "if self._vote and vote < self._vote".
douban_passes(vote, threshold) == ~(threshold # 0 /\ vote < threshold)

\* __is_processed: any(h.get('unique') == unique_key for h in history)
is_processed(unique_key) ==
  \E n \in 1..Len(history) : history[n].unique = unique_key

\* __recognize_media makes its second recognition: "if not mediainfo", where
\* mediainfo is still None after a first step that was skipped, found
\* nothing or raised.
fallback_attempted(step1) == step1 # "media"

\* __recognize_media without the try around its first step.
recognize_media_uncaught(step1, step2) ==
  IF step1 = "raise" THEN "raise" ELSE IF step1 = "media" THEN "media" ELSE step2

\* __recognize_media: step1 is what the reverse lookup by douban id gives
\* ("skipped" when the item has no id or the recognition source is not
\* themoviedb), step2 what the recognition by title and year gives.  An
\* exception of step 1 is caught; one of step 2 is not.
recognize_media(step1, step2) ==
  IF fallback_attempted(step1) THEN step2 ELSE "media"

\* __send_notification is called when self._notify and added_list.
douban_notes(r) ==
  IF notify /\ run[r].added # <<>> THEN Append(run[r].notes, run[r].added)
                                   ELSE run[r].notes

\* The head of the category loop, the fetch of the next category and, after
\* the last category, the notification.
rd_fetch(r) ==
  /\ plugin = "douban" /\ run[r].pc = "fetch"
  /\ IF run[r].ci > Len(ranks)
       THEN \E post \in {"ok", "raise"} :
              run' = [run EXCEPT ![r] =
                        Finished(r, IF post = "raise" /\ notify /\ run[r].added # <<>>
                                      THEN "raised" ELSE "returned",
                                 douban_notes(r))]
       ELSE \E items \in get_douban_data(ranks[run[r].ci]) :
              run' = [run EXCEPT ![r] =
                        IF items = <<>> THEN NextCategory(r)
                        ELSE [run[r] EXCEPT !.pc = "boundary", !.ii = 1]]
  /\ UNCHANGED <<constVars, cfgVars, hostVars, storeVars, subs, stopReq, recorded>>

\* The head of the item loop without its look at the event.
rd_boundary_blind(r) ==
  /\ plugin = "douban" /\ run[r].pc = "boundary"
  /\ run' = [run EXCEPT ![r] =
               IF run[r].ii > Len(Catalog(ranks[run[r].ci])) THEN NextCategory(r)
               ELSE [run[r] EXCEPT !.pc = "check"]]
  /\ UNCHANGED <<constVars, cfgVars, hostVars, storeVars, subs, stopReq, recorded>>

\* The head of the item loop: "for item in items: if self._event.is_set():
\* return".
rd_boundary(r) ==
  /\ plugin = "douban" /\ run[r].pc = "boundary"
  /\ run' = [run EXCEPT ![r] =
               IF run[r].ii > Len(Catalog(ranks[run[r].ci])) THEN NextCategory(r)
               ELSE IF event THEN Finished(r, "cancelled", run[r].notes)
               ELSE [run[r] EXCEPT !.pc = "check"]]
  /\ UNCHANGED <<constVars, cfgVars, hostVars, storeVars, subs, stopReq, recorded>>

\* The loop body without its rating filter: the novelty check comes first.
rd_check_unfiltered(r) ==
  /\ plugin = "douban" /\ run[r].pc = "check"
  /\ LET item == Item(CurId(r)) IN
       \E get_data \in {"ok", "raise"} :
         run' = [run EXCEPT ![r] =
                   IF get_data = "raise" THEN NextCategory(r)
                   ELSE IF is_processed(unique_flag(item.title, item.id))
                     THEN NextItem(r)
                   ELSE [run[r] EXCEPT !.pc = "recognize"]]
  /\ UNCHANGED <<constVars, cfgVars, hostVars, storeVars, subs, stopReq, recorded>>

\* Steps 1 and 2 of the loop body: the rating filter, then the novelty check.
rd_check(r) ==
  /\ plugin = "douban" /\ run[r].pc = "check"
  /\ LET item == Item(CurId(r)) IN
       IF ~douban_passes(item.rate, Vote)
         THEN run' = [run EXCEPT ![r] = NextItem(r)]
         ELSE \E get_data \in {"ok", "raise"} :
                run' = [run EXCEPT ![r] =
                          IF get_data = "raise" THEN NextCategory(r)
                          ELSE IF is_processed(unique_flag(item.title, item.id))
                            THEN NextItem(r)
                          ELSE [run[r] EXCEPT !.pc = "recognize"]]
  /\ UNCHANGED <<constVars, cfgVars, hostVars, storeVars, subs, stopReq, recorded>>

\* Step 3: identity resolution.  An exception that leaves __recognize_media
\* is caught by the except of the category.
rd_recognize(r) ==
  /\ plugin = "douban" /\ run[r].pc = "recognize"
  /\ \E step1 \in {"media", "none", "raise", "skipped"},
        step2 \in {"media", "none", "raise"} :
       LET mediainfo == recognize_media(step1, step2) IN
         run' = [run EXCEPT ![r] =
                   CASE mediainfo = "media" -> [run[r] EXCEPT !.pc = "exist"]
                     [] mediainfo = "none"  -> NextItem(r)
                     [] mediainfo = "raise" -> NextCategory(r)]
  /\ UNCHANGED <<constVars, cfgVars, hostVars, storeVars, subs, stopReq, recorded>>

\* __add_subscribe, the library check: "exist_flag, _ =
\* self.downloadchain.get_no_exists_info(...)".  Any exception is caught in
\* __add_subscribe, which then returns False.
rd_exist(r) ==
  /\ plugin = "douban" /\ run[r].pc = "exist"
  /\ \E lib \in Answers :
       run' = [run EXCEPT ![r] =
                 IF lib = "raise" THEN NextItem(r)
                 ELSE [run[r] EXCEPT !.pc = "exist_sub",
                                     !.exist_flag = (lib = "yes")]]
  /\ UNCHANGED <<constVars, cfgVars, hostVars, storeVars, subs, stopReq, recorded>>

\* __add_subscribe without its "if exist_flag: return False".
rd_exist_sub_unguarded(r) ==
  /\ plugin = "douban" /\ run[r].pc = "exist_sub"
  /\ \E sub \in {IF CurId(r) \in subs THEN "yes" ELSE "no", "raise"} :
       run' = [run EXCEPT ![r] =
                 IF sub = "no"
                   THEN [run[r] EXCEPT !.pc = "add",
                                       !.checks = {"library", "subscription"}]
                   ELSE NextItem(r)]
  /\ UNCHANGED <<constVars, cfgVars, hostVars, storeVars, subs, stopReq, recorded>>

\* __add_subscribe, "if exist_flag: return False", then the subscription
\* check "if self.subscribechain.exists(...): return False".
rd_exist_sub(r) ==
  /\ plugin = "douban" /\ run[r].pc = "exist_sub"
  /\ IF run[r].exist_flag
       THEN run' = [run EXCEPT ![r] = NextItem(r)]
       ELSE \E sub \in {IF CurId(r) \in subs THEN "yes" ELSE "no", "raise"} :
              run' = [run EXCEPT ![r] =
                        IF sub = "no"
                          THEN [run[r] EXCEPT !.pc = "add",
                                              !.checks = {"library", "subscription"}]
                          ELSE NextItem(r)]
  /\ UNCHANGED <<constVars, cfgVars, hostVars, storeVars, subs, stopReq, recorded>>

\* __add_subscribe, the add: the backend registers the subscription ("ok"),
\* rejects it, returning (None, message) ("rejected"), or raises.  The value
\* add returns is not looked at: __add_subscribe returns True unless add
\* raised, and refresh_douban then appends the item to added_list.
rd_add(r) ==
  /\ plugin = "douban" /\ run[r].pc = "add"
  /\ \E res \in {"ok", "rejected", "raise"} :
       /\ subs' = IF res = "ok" THEN subs \cup {CurId(r)} ELSE subs
       /\ run' = [run EXCEPT ![r] =
                    IF res = "raise" THEN NextItem(r)
                    ELSE [run[r] EXCEPT !.pc = "save_get", !.addres = res,
                                        !.added = Append(@, CurId(r))]]
  /\ UNCHANGED <<constVars, cfgVars, hostVars, storeVars, stopReq, recorded>>

\* __save_history, first half: history = self.get_data('history') or [],
\* and the append of the new record to that copy.
rd_save_get(r) ==
  /\ plugin = "douban" /\ run[r].pc = "save_get"
  /\ \E get_data \in {"ok", "raise"} :
       run' = [run EXCEPT ![r] =
                 IF get_data = "raise" THEN NextCategory(r)
                 ELSE [run[r] EXCEPT !.pc = "save_put",
                                     !.hist = Append(history, HistoryRecord(CurId(r)))]]
  /\ UNCHANGED <<constVars, cfgVars, hostVars, storeVars, subs, stopReq, recorded>>

\* __save_history saving the whole list: no [-500:].
save_history_uncapped(r) == run[r].hist

\* __save_history keeping the first records instead: history[:500].
save_history_first(r) == FirstN(run[r].hist, HistoryCap)

\* __save_history, second half: self.save_data('history', history[-500:]).
save_history(r) == LastN(run[r].hist, HistoryCap)

rd_save_put(r) ==
  /\ plugin = "douban" /\ run[r].pc = "save_put"
  /\ \E save_data \in {"ok", "raise"} :
       IF save_data = "raise"
         THEN /\ run' = [run EXCEPT ![r] = NextCategory(r)]
              /\ UNCHANGED <<history, recorded>>
         ELSE /\ history' = save_history(r)
              /\ recorded' = Recorded(KeyOf(CurId(r)))
              /\ run' = [run EXCEPT ![r] = NextItem(r)]
  /\ UNCHANGED <<constVars, cfgVars, hostVars, processed_ids, file_exists,
                 file_lines, subs, stopReq>>

(* -------------------- TmdbTrendsSubscribe: one run -------------------- *)

\* _get_tmdb_data: the first `limit` results of the category, or [] when the
\* key is missing, the request or the status failed, or anything raised.
get_tmdb_data(c, limit) == {<<>>, FirstN(Catalog(c), limit)}

\* check_and_subscribe's rating filter skips the item when
\* "rating < self._min_rating".
tmdb_passes(rating, min_rating) == ~(rating < min_rating)

\* _save_processed_id: a key already in the set is left alone; otherwise it
\* is added to the set and appended to the file, and a failure of the append
\* is logged only.  `write` is what the append does: "ok" or "raise".
save_processed_ids(key) ==
  IF key \in processed_ids THEN processed_ids ELSE processed_ids \cup {key}

save_file_exists(key, write) ==
  IF key \in processed_ids \/ write = "raise" THEN file_exists ELSE TRUE

save_file_lines(key, write) ==
  IF key \in processed_ids \/ write = "raise" THEN file_lines
  ELSE file_lines \cup {key}

\* The head of the category loop and the fetch of the next category; after
\* the last category the run returns.
cs_fetch(r) ==
  /\ plugin = "tmdb" /\ run[r].pc = "fetch"
  /\ IF run[r].ci > Len(ranks)
       THEN run' = [run EXCEPT ![r] = Finished(r, "returned", run[r].notes)]
       ELSE \E items \in get_tmdb_data(ranks[run[r].ci], Count) :
              run' = [run EXCEPT ![r] =
                        IF items = <<>> THEN NextCategory(r)
                        ELSE [run[r] EXCEPT !.pc = "boundary", !.ii = 1]]
  /\ UNCHANGED <<constVars, cfgVars, hostVars, storeVars, subs, stopReq, recorded>>

\* The head of the item loop: "for item in items:".  Nothing else is looked
\* at here.
cs_boundary(r) ==
  /\ plugin = "tmdb" /\ run[r].pc = "boundary"
  /\ run' = [run EXCEPT ![r] =
               IF run[r].ii > Len(FirstN(Catalog(ranks[run[r].ci]), Count))
                 THEN NextCategory(r)
                 ELSE [run[r] EXCEPT !.pc = "check"]]
  /\ UNCHANGED <<constVars, cfgVars, hostVars, storeVars, subs, stopReq, recorded>>

\* Steps 1 and 2 of the loop body: the rating filter, then the novelty check.
cs_check(r) ==
  /\ plugin = "tmdb" /\ run[r].pc = "check"
  /\ LET item == Item(CurId(r)) IN
       run' = [run EXCEPT ![r] =
                 IF ~tmdb_passes(item.rate, Vote) THEN NextItem(r)
                 ELSE IF media_id(media_type(ranks[run[r].ci]), item.id) \in processed_ids
                   THEN NextItem(r)
                 ELSE [run[r] EXCEPT !.pc = "recognize"]]
  /\ UNCHANGED <<constVars, cfgVars, hostVars, storeVars, subs, stopReq, recorded>>

\* Step 3: media_chain.recognize_media.  check_and_subscribe has no try: an
\* exception leaves the run.
cs_recognize(r) ==
  /\ plugin = "tmdb" /\ run[r].pc = "recognize"
  /\ \E mediainfo \in {"media", "none", "raise"} :
       run' = [run EXCEPT ![r] =
                 CASE mediainfo = "media" -> [run[r] EXCEPT !.pc = "exist"]
                   [] mediainfo = "none"  -> NextItem(r)
                   [] mediainfo = "raise" -> Finished(r, "raised", run[r].notes)]
  /\ UNCHANGED <<constVars, cfgVars, hostVars, storeVars, subs, stopReq, recorded>>

\* Step 4: subscribe_chain.exists, the only existence check of this plugin.
\* An item already subscribed goes on to _save_processed_id.
cs_exist(r) ==
  /\ plugin = "tmdb" /\ run[r].pc = "exist"
  /\ \E sub \in {IF CurId(r) \in subs THEN "yes" ELSE "no", "raise"} :
       run' = [run EXCEPT ![r] =
                 CASE sub = "no"    -> [run[r] EXCEPT !.pc = "add",
                                                      !.checks = {"subscription"}]
                   [] sub = "yes"   -> [run[r] EXCEPT !.pc = "record"]
                   [] sub = "raise" -> Finished(r, "raised", run[r].notes)]
  /\ UNCHANGED <<constVars, cfgVars, hostVars, storeVars, subs, stopReq, recorded>>

\* Step 5: sid, msg = subscribe_chain.add(...).  A rejected add (no sid) is
\* logged and the item is left.
cs_add(r) ==
  /\ plugin = "tmdb" /\ run[r].pc = "add"
  /\ \E res \in {"ok", "rejected", "raise"} :
       /\ subs' = IF res = "ok" THEN subs \cup {CurId(r)} ELSE subs
       /\ run' = [run EXCEPT ![r] =
                    CASE res = "ok"       -> [run[r] EXCEPT !.pc = "record",
                                                            !.addres = "ok",
                                                            !.added = Append(@, CurId(r))]
                      [] res = "rejected" -> NextItem(r)
                      [] res = "raise"    -> Finished(r, "raised", run[r].notes)]
  /\ UNCHANGED <<constVars, cfgVars, hostVars, storeVars, stopReq, recorded>>

\* Step 6 (and the already-subscribed branch of step 4): _save_processed_id,
\* and, after a successful add, the notification of this item when
\* self._notify.
cs_record(r) ==
  /\ plugin = "tmdb" /\ run[r].pc = "record"
  /\ \E write \in {"ok", "raise"}, post \in {"ok", "raise"} :
       LET key == media_id(media_type(ranks[run[r].ci]), Item(CurId(r)).id)
           posts == run[r].addres = "ok" /\ notify
           notes == IF posts THEN Append(run[r].notes, <<CurId(r)>>)
                    ELSE run[r].notes
       IN /\ processed_ids' = save_processed_ids(key)
          /\ file_exists' = save_file_exists(key, write)
          /\ file_lines' = save_file_lines(key, write)
          /\ recorded' = Recorded(key)
          /\ run' = [run EXCEPT ![r] =
                       IF posts /\ post = "raise"
                         THEN Finished(r, "raised", notes)
                         ELSE [NextItem(r) EXCEPT !.notes = notes]]
  /\ UNCHANGED <<constVars, cfgVars, hostVars, history, subs, stopReq>>

(* ------------------------- starting a run ----------------------------- *)

\* The slot a new run takes: the lowest free one.
FreeSlot(r) == run[r].pc = "idle" /\ \A q \in Runs : q < r => run[q].pc # "idle"

\* A run started the way src says is in flight.
Running(src) == \E r \in Runs : Active(r) /\ run[r].src = src

\* The run sources whose runs are jobs of the plugin's own scheduler, which
\* scheduler.shutdown() waits for: DoubanRank starts its run-once run as a
\* Thread, TmdbTrendsSubscribe as a 'date' job of its scheduler.
OwnJobs == IF plugin = "douban" THEN {"cron"} ELSE {"cron", "once"}

OwnJobRunning == \E r \in Runs : Active(r) /\ run[r].src \in OwnJobs

\* stop_service was called: every run in flight has been asked to stop.
Asked == IF audit THEN [r \in Runs |-> stopReq[r] \/ Active(r)] ELSE stopReq

\* get_service: the job the host is given.
get_service == IF enabled THEN {"service"} ELSE {}

\* The cron job of the plugin's own scheduler fires (a job has at most one
\* instance running).
cron_fire(r) ==
  /\ scheduler = "running" /\ "cron" \in jobs /\ hostpc = "idle"
  /\ FreeSlot(r) /\ ~Running("cron")
  /\ run' = [run EXCEPT ![r] = Started("cron")]
  /\ stopReq' = [stopReq EXCEPT ![r] = FALSE]
  /\ UNCHANGED <<constVars, cfgVars, hostVars, storeVars, subs, recorded>>

\* The job of get_service fires in the host's scheduler.
service_fire(r) ==
  /\ "service" \in get_service
  /\ FreeSlot(r) /\ ~Running("service")
  /\ run' = [run EXCEPT ![r] = Started("service")]
  /\ stopReq' = [stopReq EXCEPT ![r] = FALSE]
  /\ UNCHANGED <<constVars, cfgVars, hostVars, storeVars, subs, recorded>>

\* TmdbTrendsSubscribe: the 'date' job of the run-once trigger fires, once.
once_fire(r) ==
  /\ plugin = "tmdb"
  /\ scheduler = "running" /\ "once" \in jobs /\ hostpc = "idle"
  /\ FreeSlot(r)
  /\ jobs' = jobs \ {"once"}
  /\ run' = [run EXCEPT ![r] = Started("once")]
  /\ stopReq' = [stopReq EXCEPT ![r] = FALSE]
  /\ UNCHANGED <<constVars, del, cfgVars, scheduler, event, hostpc, pending,
                 storeVars, subs, recorded>>

(* ------------------------ DoubanRank: the host ------------------------ *)

\* DoubanRank.init_plugin on a config with the fields enabled = en and
\* onlyonce = once: whether it starts the run-once Thread
\* (__execute_once_operations is called "if self._enabled or self._onlyonce",
\* and starts the Thread "if self._onlyonce"), the field _onlyonce afterwards,
\* and the onlyonce of the persisted configuration afterwards
\* (__update_config writes the fields back when the Thread was started).
db_starts_once(en, once) == (en \/ once) /\ once

db_onlyonce(en, once) == IF en \/ once THEN FALSE ELSE once

db_persisted_onlyonce(en, once) ==
  IF db_starts_once(en, once) THEN db_onlyonce(en, once) ELSE once

\* init_plugin after its stop_service: the scheduler of an enabled plugin,
\* then __execute_once_operations.  en, once, clr, nfy
\* are the fields loaded from the config; sch0 and jobs0 the scheduler as
\* stop_service left it; slots the run slots the run-once Thread may take.
db_init_tail(en, once, clr, nfy, sch0, jobs0, slots) ==
  LET go == en \/ once
      clears == go /\ clr
      runs == db_starts_once(en, once)
  IN /\ enabled' = en
     /\ notify' = nfy
     /\ onlyonce' = db_onlyonce(en, once)
     /\ clear_history' = IF go THEN FALSE ELSE clr
     /\ scheduler' = IF en THEN "running" ELSE sch0
     /\ jobs' = IF en THEN {"cron"} ELSE jobs0
     /\ history' = IF clears THEN <<>> ELSE history
     /\ recorded' = IF clears THEN {} ELSE recorded
     /\ IF runs
          THEN \E r \in slots :
                 /\ FreeSlot(r)
                 /\ run' = [run EXCEPT ![r] = Started("once")]
                 /\ stopReq' = [Asked EXCEPT ![r] = FALSE]
          ELSE /\ run' = run
               /\ stopReq' = Asked

\* init_plugin(config): the fields are loaded, then stop_service is called.
\* With a scheduler, stop_service removes its jobs, sets the event and calls
\* scheduler.shutdown(), which waits for the scheduler's running jobs.
db_init_plugin(config, slots) ==
  /\ plugin = "douban" /\ hostpc = "idle"
  /\ IF scheduler # "none"
       THEN /\ enabled' = config.enabled
            /\ onlyonce' = config.onlyonce
            /\ clear_history' = config.clear_history
            /\ notify' = config.notify
            /\ jobs' = {}
            /\ event' = TRUE
            /\ hostpc' = "init"
            /\ stopReq' = Asked
            /\ UNCHANGED <<scheduler, history, recorded, run>>
       ELSE /\ db_init_tail(config.enabled, config.onlyonce,
                            config.clear_history, config.notify, scheduler, jobs,
                            slots)
            /\ UNCHANGED <<event, hostpc>>
  /\ UNCHANGED <<constVars, del, pending, processed_ids, file_exists, file_lines, subs>>

\* stop_service() called by the host on its own.
db_stop_service ==
  /\ plugin = "douban" /\ hostpc = "idle"
  /\ IF scheduler # "none"
       THEN jobs' = {} /\ event' = TRUE /\ hostpc' = "stop"
       ELSE UNCHANGED <<jobs, event, hostpc>>
  /\ stopReq' = Asked
  /\ UNCHANGED <<constVars, del, cfgVars, scheduler, pending, storeVars, subs, run,
                 recorded>>

\* scheduler.shutdown() returns, once no job of the scheduler is running:
\* the event is cleared and self._scheduler set to None.
db_shutdown_return(slots) ==
  /\ plugin = "douban" /\ hostpc \in {"stop", "init"}
  /\ ~OwnJobRunning
  /\ event' = FALSE
  /\ hostpc' = "idle"
  /\ IF hostpc = "init"
       THEN db_init_tail(enabled, onlyonce, clear_history, notify, "none", {},
                         slots)
       ELSE /\ scheduler' = "none"
            /\ jobs' = {}
            /\ UNCHANGED <<cfgVars, history, recorded, run, stopReq>>
  /\ UNCHANGED <<constVars, del, pending, processed_ids, file_exists, file_lines, subs>>

\* scheduler.shutdown() raises: stop_service logs the exception and returns,
\* with the event still set and self._scheduler still there.
db_shutdown_raise(slots) ==
  /\ plugin = "douban" /\ hostpc \in {"stop", "init"}
  /\ hostpc' = "idle"
  /\ IF hostpc = "init"
       THEN db_init_tail(enabled, onlyonce, clear_history, notify, scheduler,
                         jobs, slots)
       ELSE UNCHANGED <<cfgVars, scheduler, jobs, history, recorded, run, stopReq>>
  /\ UNCHANGED <<constVars, del, event, pending, processed_ids, file_exists,
                 file_lines, subs>>

\* delete_history removing the first record of the key only.
delete_history_first_only(stored, key, apikey) ==
  LET hits == {n \in 1..Len(stored) : stored[n].unique = key}
      first == CHOOSE n \in hits : \A m \in hits : n <= m
  IN IF apikey # API_TOKEN
       THEN [success |-> FALSE, get_data |-> FALSE, save_data |-> FALSE,
             historys |-> stored]
       ELSE [success |-> TRUE, get_data |-> TRUE, save_data |-> TRUE,
             historys |-> IF hits = {} THEN stored
                          ELSE SubSeq(stored, 1, first - 1)
                                 \o SubSeq(stored, first + 1, Len(stored))]

\* delete_history without its check of the apikey.
delete_history_unchecked(stored, key, apikey) ==
  [success |-> TRUE, get_data |-> TRUE, save_data |-> TRUE,
   historys |-> SelectSeq(stored, LAMBDA h : h.unique # key)]

\* delete_history(key, apikey) on the stored list: the result it returns
\* (success), whether it calls get_data and save_data, and the list historys
\* it saves (the stored list when it saves nothing).
delete_history(stored, key, apikey) ==
  IF apikey # API_TOKEN
    THEN [success |-> FALSE, get_data |-> FALSE, save_data |-> FALSE,
          historys |-> stored]
    ELSE [success |-> TRUE, get_data |-> TRUE, save_data |-> TRUE,
          historys |-> SelectSeq(stored, LAMBDA h : h.unique # key)]

\* A call of delete_history, first half: the check of the apikey, then
\* historys = self.get_data('history') or [] and the list without the
\* records of the key.
dh_get(key, apikey) ==
  /\ plugin = "douban" /\ del.pc = "idle"
  /\ LET d == delete_history(history, key, apikey) IN
       del' = IF d.save_data THEN [pc |-> "save", historys |-> d.historys]
              ELSE del
  /\ UNCHANGED <<constVars, cfgVars, scheduler, jobs, event, hostpc, pending,
                 storeVars, subs, run, stopReq, recorded>>

\* A call of delete_history, second half: self.save_data('history', historys).
dh_save ==
  /\ plugin = "douban" /\ del.pc = "save"
  /\ \E save_data \in {"ok", "raise"} :
       history' = IF save_data = "ok" THEN del.historys ELSE history
  /\ del' = NoDelete
  /\ UNCHANGED <<constVars, cfgVars, scheduler, jobs, event, hostpc, pending,
                 processed_ids, file_exists, file_lines, subs, run, stopReq,
                 recorded>>

(* -------------------- TmdbTrendsSubscribe: the host ------------------- *)

\* _load_processed_ids: the set is replaced by the lines of the file when
\* the file exists and can be read, and left alone otherwise.
load_processed_ids(read) ==
  IF file_exists /\ read = "ok" THEN file_lines ELSE processed_ids

\* TmdbTrendsSubscribe.init_plugin on a config with the fields enabled = en
\* and only_once = once: whether it adds the run-once 'date' job (inside
\* "if self._enabled:", "if self._only_once:"), the field _only_once
\* afterwards, and the only_once of the persisted configuration afterwards
\* (update_config({**config, "only_once": False}) when the job was added).
tm_starts_once(en, once) == en /\ once

tm_only_once(en, once) == IF en THEN FALSE ELSE once

tm_persisted_only_once(en, once) ==
  IF tm_starts_once(en, once) THEN FALSE ELSE once

\* init_plugin after its stop_service: the config is loaded, and an enabled
\* plugin gets a new scheduler with the run-once 'date' job (when only_once)
\* and the cron job.
tm_init_tail(config, sch0, jobs0) ==
  /\ enabled' = config.enabled
  /\ notify' = config.notify
  /\ onlyonce' = tm_only_once(config.enabled, config.onlyonce)
  /\ scheduler' = IF config.enabled THEN "running" ELSE sch0
  /\ jobs' = IF config.enabled
               THEN (IF tm_starts_once(config.enabled, config.onlyonce)
                       THEN {"once", "cron"} ELSE {"cron"})
               ELSE jobs0
  /\ UNCHANGED clear_history

\* init_plugin(config): _load_processed_ids, then stop_service, which calls
\* scheduler.shutdown() when the scheduler is running.
tm_init_plugin(config) ==
  /\ plugin = "tmdb" /\ hostpc = "idle"
  /\ config.clear_history = FALSE
  /\ \E read \in {"ok", "raise"} : processed_ids' = load_processed_ids(read)
  /\ stopReq' = Asked
  /\ IF scheduler = "running"
       THEN /\ hostpc' = "init"
            /\ pending' = config
            /\ UNCHANGED <<cfgVars, scheduler, jobs>>
       ELSE /\ tm_init_tail(config, scheduler, jobs)
            /\ UNCHANGED <<hostpc, pending>>
  /\ UNCHANGED <<constVars, del, event, history, file_exists, file_lines, subs, run,
                 recorded>>

\* stop_service() called by the host on its own.
tm_stop_service ==
  /\ plugin = "tmdb" /\ hostpc = "idle"
  /\ hostpc' = IF scheduler = "running" THEN "stop" ELSE hostpc
  /\ stopReq' = Asked
  /\ UNCHANGED <<constVars, del, cfgVars, scheduler, jobs, event, pending, storeVars,
                 subs, run, recorded>>

\* scheduler.shutdown() returns, once no job of the scheduler is running.
tm_shutdown_return ==
  /\ plugin = "tmdb" /\ hostpc \in {"stop", "init"}
  /\ ~OwnJobRunning
  /\ hostpc' = "idle"
  /\ pending' = NoConfig
  /\ IF hostpc = "init"
       THEN tm_init_tail(pending, "none", {})
       ELSE /\ scheduler' = "none"
            /\ jobs' = {}
            /\ UNCHANGED cfgVars
  /\ UNCHANGED <<constVars, del, event, storeVars, subs, run, stopReq, recorded>>

\* scheduler.shutdown() raises: the exception leaves stop_service and, in
\* init_plugin, init_plugin.
tm_shutdown_raise ==
  /\ plugin = "tmdb" /\ hostpc \in {"stop", "init"}
  /\ hostpc' = "idle"
  /\ pending' = NoConfig
  /\ UNCHANGED <<constVars, del, cfgVars, scheduler, jobs, event, storeVars, subs,
                 run, stopReq, recorded>>

\* clear_cache(): the file is unlinked and the set emptied; when the unlink
\* raises, nothing is changed and an error result is returned.
clear_cache ==
  /\ plugin = "tmdb"
  /\ \E unlink \in {"ok", "raise"} :
       IF file_exists /\ unlink = "raise"
         THEN UNCHANGED <<processed_ids, file_exists, file_lines, recorded>>
         ELSE /\ processed_ids' = {}
              /\ file_exists' = FALSE
              /\ file_lines' = {}
              /\ recorded' = {}
  /\ UNCHANGED <<constVars, cfgVars, hostVars, history, subs, run, stopReq>>

(* --------------------------- the process ------------------------------ *)

\* The host process is restarted while nothing runs, and the new process
\* loads the plugin: the fields of the plugin object are those of the class
\* again (no scheduler, the event clear, an empty _processed_ids), and
\* init_plugin(config) runs on them.  The plugin data, the file and the
\* backends keep their state.
restart(config, slots) ==
  /\ hostpc = "idle" /\ del.pc = "idle" /\ \A r \in Runs : ~Active(r)
  /\ event' = FALSE
  /\ IF plugin = "douban"
       THEN /\ db_init_tail(config.enabled, config.onlyonce,
                            config.clear_history, config.notify, "none", {},
                            slots)
            /\ UNCHANGED processed_ids
       ELSE /\ config.clear_history = FALSE
            /\ tm_init_tail(config, "none", {})
            /\ \E read \in {"ok", "raise"} :
                 processed_ids' = IF file_exists /\ read = "ok" THEN file_lines
                                  ELSE {}
            /\ UNCHANGED <<history, recorded, run, stopReq>>
  /\ UNCHANGED <<constVars, del, hostpc, pending, file_exists, file_lines, subs>>

Keys == {KeyOf(i) : i \in ItemIds}

\* The steps of the run in slot r.
RunStep(r) ==
  \/ rd_fetch(r)
  \/ rd_boundary(r)
  \/ rd_check(r)
  \/ rd_recognize(r)
  \/ rd_exist(r)
  \/ rd_exist_sub(r)
  \/ rd_add(r)
  \/ rd_save_get(r)
  \/ rd_save_put(r)
  \/ cs_fetch(r)
  \/ cs_boundary(r)
  \/ cs_check(r)
  \/ cs_recognize(r)
  \/ cs_exist(r)
  \/ cs_add(r)
  \/ cs_record(r)
  \/ run_return(r)
  \/ cron_fire(r)
  \/ service_fire(r)
  \/ once_fire(r)

\* The host and the administrative endpoints; a run-once Thread takes a slot
\* of slots.
HostStep(slots) ==
  \/ \E config \in Configs : db_init_plugin(config, slots)
  \/ db_stop_service
  \/ db_shutdown_return(slots)
  \/ db_shutdown_raise(slots)
  \/ \E key \in Keys, apikey \in ApiKeys : dh_get(key, apikey)
  \/ dh_save
  \/ \E config \in Configs : tm_init_plugin(config)
  \/ tm_stop_service
  \/ tm_shutdown_return
  \/ tm_shutdown_raise
  \/ clear_cache
  \/ \E config \in Configs : restart(config, slots)

\* Runs one at a time: a run starts only when no other run is in flight.
Next == RunStep(1) \/ HostStep({1})

Spec == Init /\ [][Next]_vars

\* Concurrent runs: every way of starting a run may take any free slot.  One
\* category is selected, and the history variables are not kept.
InitConc == InitWith(<<2>>, FALSE)

NextConc == (\E r \in Runs : RunStep(r)) \/ HostStep(Runs)

SpecConc == InitConc /\ [][NextConc]_vars

(* ------------------- functions applied on their own ------------------- *)

\* The rating field of a source item: a number, or omitted (the key is
\* missing, its value is null, or it is the empty string).
Omitted == {"missing", "null", "empty"}

RateFields ==
  [kind : Omitted, val : {0}] \cup [kind : {"number"}, val : 0..MaxRate]

\* DoubanRank: vote = float(item.get('rate') or 0)
douban_vote(field) == IF field.kind = "number" THEN field.val ELSE 0

\* TmdbTrendsSubscribe: rating = item.get("vote_average", 0); the default
\* stands in for a missing key only.
tmdb_rating(field) ==
  IF field.kind = "missing" THEN [kind |-> "number", val |-> 0] ELSE field

\* The rating filter of refresh_douban on a source item: the item goes on to
\* the novelty check ("pass") or is left ("skip").
douban_filter(field, threshold) ==
  IF douban_passes(douban_vote(field), threshold) THEN "pass" ELSE "skip"

\* The rating filter of check_and_subscribe on a source item; the comparison
\* "rating < self._min_rating" of a rating that is no number raises TypeError.
tmdb_filter(field, min_rating) ==
  LET rating == tmdb_rating(field) IN
    IF rating.kind # "number" THEN "raise"
    ELSE IF tmdb_passes(rating.val, min_rating) THEN "pass" ELSE "skip"

\* The rating filter of the plugin is applied to a source item.
filter_call ==
  /\ call = NoCall
  /\ \E field \in RateFields, threshold \in 0..MaxRate :
       /\ call' = [fn |-> "filter", field |-> field, threshold |-> threshold]
       /\ ret' = [outcome |-> IF plugin = "douban"
                                 THEN douban_filter(field, threshold)
                                 ELSE tmdb_filter(field, threshold)]
  /\ UNCHANGED <<plugin, ranks, audit, cfgVars, hostVars, storeVars, subs, run,
                 stopReq, recorded>>

\* DoubanRank.__recognize_media is applied: what it gives, and whether it made
\* its second recognition.
recognize_call ==
  /\ call = NoCall /\ plugin = "douban"
  /\ \E step1 \in {"media", "none", "raise", "skipped"},
        step2 \in {"media", "none", "raise"} :
       /\ call' = [fn |-> "recognize_media", step1 |-> step1, step2 |-> step2]
       /\ ret' = [mediainfo |-> recognize_media(step1, step2),
                  fallback |-> fallback_attempted(step1)]
  /\ UNCHANGED <<plugin, ranks, audit, cfgVars, hostVars, storeVars, subs, run,
                 stopReq, recorded>>

\* DoubanRank._rank_config: the fetch strategy and the URL of each built-in
\* category.  A URL is written as the sequence of the pieces it is made of, so
\* that "marker in url" is the test for a contiguous run of pieces.
RankKeys == {"movie_hot", "tv_hot", "show_hot", "movie_top250", "movie_weekly"}

rank_type(key) ==
  IF key \in {"movie_top250", "movie_weekly"} THEN "html" ELSE "api"

rank_url(key) ==
  CASE key = "movie_top250" -> <<"https://", "movie", ".douban.com/", "top250">>
    [] key = "movie_weekly" -> <<"https://", "movie", ".douban.com/", "chart">>
    [] OTHER -> <<"https://", "movie", ".douban.com/", "j/search_subjects">>

\* Python's "marker in url" on strings.
Contains(url, marker) ==
  \E i \in 1..(Len(url) - Len(marker) + 1) :
    SubSeq(url, i, i + Len(marker) - 1) = marker

\* The extraction pattern __get_douban_data selects for an html category:
\* "if 'movie_top250' in url: ... elif 'chart' in url: ...", and none
\* otherwise.
html_pattern(url) ==
  IF Contains(url, <<"movie", "_", "top250">>) THEN "top250"
  ELSE IF Contains(url, <<"chart">>) THEN "chart"
  ELSE "none"

\* What a request comes back with.  transport: the request raised, gave no
\* response, gave a status other than 200, or succeeded.  body: text that is
\* no JSON and no listing page, a JSON value that is no object, a JSON object
\* whose list field is null, one whose list holds n entries that are no
\* objects, one whose list holds n item objects ("json"), or an html page
\* with n entries in the layout of the Top250 page or of the chart page.
Transports == {"error", "none", "status", "ok"}

MalformedBodies == {"unparsable", "not_object", "no_list", "bad_entries"}

Bodies == MalformedBodies \cup {"json", "top250", "chart"}

Responses == [transport : Transports, body : Bodies, n : 0..MaxEntries]

\* What a fetch gives its caller: no exception leaves either fetch (the
\* whole of the request and the parsing is inside try/except Exception), and
\* the value returned is empty, a list of n items, or a list of n entries
\* that are no items ("junk").
FetchResult(kind, n) ==
  [raised |-> FALSE, kind |-> IF n = 0 THEN "empty" ELSE kind, n |-> n]

\* DoubanRank.__get_douban_data(rank_conf) on a response.  api: res.json()
\* of a body that is no JSON is caught inside, and data.get / the loop over
\* subjects / sub.get on a value of the wrong type raise into the outer
\* except, which returns [].  html: the matches of the selected pattern.
douban_fetch(key, res) ==
  IF res.transport # "ok" THEN FetchResult("empty", 0)
  ELSE IF rank_type(key) = "api"
    THEN (IF res.body = "json" THEN FetchResult("items", res.n)
          ELSE FetchResult("empty", 0))
  ELSE (IF html_pattern(rank_url(key)) = res.body
          THEN FetchResult("items", res.n)
          ELSE FetchResult("empty", 0))

\* TmdbTrendsSubscribe._get_tmdb_data on a response:
\* "return res.json().get('results', [])[:limit]" inside try/except
\* Exception.  The entries of the list are not looked at.
tmdb_fetch(res, limit) ==
  LET m == IF res.n <= limit THEN res.n ELSE limit IN
    IF res.transport # "ok" THEN FetchResult("empty", 0)
    ELSE IF res.body = "json" THEN FetchResult("items", m)
    ELSE IF res.body = "bad_entries" THEN FetchResult("junk", m)
    ELSE FetchResult("empty", 0)

\* What the run does with the value of a fetch: "if not items: continue",
\* and otherwise the item loop, whose first look at an entry (item.get)
\* raises when the entry is no object.
after_fetch(result) ==
  CASE result.kind = "empty" -> "next_category"
    [] result.kind = "items" -> "item_loop"
    [] result.kind = "junk"  -> "raise"

\* The fetch of the plugin is applied to a category and a response.
fetch_call ==
  /\ call = NoCall
  /\ \E key \in RankKeys, res \in Responses :
       LET result == IF plugin = "douban" THEN douban_fetch(key, res)
                     ELSE tmdb_fetch(res, Count)
       IN /\ call' = [fn |-> "fetch", key |-> key, res |-> res]
          /\ ret' = [outcome |-> result.kind, raised |-> result.raised,
                     n |-> result.n, caller |-> after_fetch(result)]
  /\ UNCHANGED <<plugin, ranks, audit, cfgVars, hostVars, storeVars, subs, run,
                 stopReq, recorded>>

\* The lists the plugin data 'history' may hold.
Histories ==
  UNION {[1..n -> {HistoryRecord(i) : i \in ItemIds}] : n \in 0..MaxStored}

\* DoubanRank.delete_history is applied to a stored list.
delete_call ==
  /\ call = NoCall /\ plugin = "douban"
  /\ \E stored \in Histories, key \in Keys, apikey \in ApiKeys :
       LET d == delete_history(stored, key, apikey) IN
         /\ call' = [fn |-> "delete_history", stored |-> stored, key |-> key,
                     apikey |-> apikey]
         /\ ret' = [outcome |-> IF d.success THEN "success" ELSE "failure",
                    get_data |-> d.get_data, save_data |-> d.save_data,
                    stored |-> d.historys]
  /\ UNCHANGED <<plugin, ranks, audit, cfgVars, hostVars, storeVars, subs, run,
                 stopReq, recorded>>

\* init_plugin(config) is applied, as far as run-once goes: whether an
\* immediate run is started, the run-once field afterwards and the run-once
\* flag of the persisted configuration afterwards.
init_call ==
  /\ call = NoCall
  /\ \E config \in Configs :
       LET en == config.enabled
           once == config.onlyonce
       IN /\ plugin = "tmdb" => ~config.clear_history
          /\ call' = [fn |-> "init_plugin", config |-> config]
          /\ ret' = IF plugin = "douban"
                      THEN [outcome |-> IF db_starts_once(en, once)
                                          THEN "run" ELSE "no_run",
                            onlyonce |-> db_onlyonce(en, once),
                            persisted |-> db_persisted_onlyonce(en, once)]
                      ELSE [outcome |-> IF tm_starts_once(en, once)
                                          THEN "run" ELSE "no_run",
                            onlyonce |-> tm_only_once(en, once),
                            persisted |-> tm_persisted_only_once(en, once)]
  /\ UNCHANGED <<plugin, ranks, audit, cfgVars, hostVars, storeVars, subs, run,
                 stopReq, recorded>>

NextPure ==
  filter_call \/ recognize_call \/ fetch_call \/ delete_call \/ init_call

SpecPure == Init /\ [][NextPure]_vars

(* ------------------------------ properties ---------------------------- *)

\* C1: a key recorded as processed never passes the novelty check again
\* (never goes on to identity resolution), whatever runs, history appends,
\* delete_history calls and re-initialisations come in between, as long as
\* no clear was invoked.
C1_RecordedKeyNeverNovel ==
  [][\A r \in Runs :
       (run[r].pc = "check" /\ run'[r].pc = "recognize")
         => KeyOf(CurId(r)) \notin recorded]_vars

\* C2: once markProcessed(k) has returned, isProcessed(k) is true from then
\* on, also after the durable store was loaded again and also when the write
\* to the durable store failed.
C2_MarkedStaysProcessed ==
  \A k \in recorded :
    IF plugin = "douban" THEN is_processed(k) ELSE k \in processed_ids

\* C3: a run is at the add of an item only when, for this item, the library
\* check and the subscription check were both made and both were negative.
C3_AddAfterBothChecks ==
  \A r \in Runs :
    run[r].pc = "add" => run[r].checks = {"library", "subscription"}

\* C4: an add that leaves the item without a subscription (the backend
\* rejected it) neither puts the item on the run's summary of added items nor
\* goes on to record the item as processed.
C4_RejectedAddNotRecorded ==
  [][\A r \in Runs :
       (run[r].pc = "add" /\ run'[r] # run[r] /\ run'[r].pc # "return"
          /\ CurId(r) \notin subs')
         => /\ run'[r].added = run[r].added
            /\ run'[r].pc \notin {"save_get", "save_put", "record"}]_vars

\* C5: a run sends notifications only after its last category, and a run
\* that returns has then sent exactly one, listing all the items it added,
\* when notifications are on and it added an item, and none otherwise.
C5_OneAggregatedNotification ==
  [][\A r \in Runs :
       LET atEnd == run[r].pc = "fetch" /\ run[r].ci > Len(ranks) IN
         /\ (run[r].pc \notin {"idle", "return"} /\ run'[r].notes # run[r].notes)
              => atEnd
         /\ (atEnd /\ run'[r].pc = "return" /\ run'[r].outcome = "returned")
              => run'[r].notes = IF notify /\ run[r].added # <<>>
                                   THEN <<run[r].added>> ELSE <<>>]_vars

\* C6: whatever a step of the processing of a category does (an exception
\* included), the run stays in its category loop: it does not leave its entry
\* point by raising to the caller.
C6_CategoryExceptionContained ==
  [][\A r \in Runs :
       run[r].pc \in {"check", "recognize", "exist", "exist_sub", "add",
                      "save_get", "save_put", "record"}
         => ~(run'[r].pc = "return" /\ run'[r].outcome = "raised")]_vars

\* C7: whatever the identity resolution or the registration of item j does
\* (an exception included), the run stays at item j or goes on to the
\* boundary of item j+1 of the same category.
C7_ItemExceptionContained ==
  [][\A r \in Runs :
       (run[r].pc \in {"recognize", "exist", "exist_sub", "add"}
          /\ run'[r] # run[r])
         => /\ run'[r].ci = run[r].ci
            /\ \/ run'[r].ii = run[r].ii
                    /\ run'[r].pc \in {"exist", "exist_sub", "add", "save_get",
                                       "record"}
               \/ run'[r].ii = run[r].ii + 1 /\ run'[r].pc = "boundary"]_vars

\* C8: a run that sees the event set at an item boundary goes straight to
\* its return, as cancelled: that step and the return change neither the
\* history, the processed keys, the subscriptions nor the notifications sent,
\* so what the run committed before is still in the store.
C8_CancelledRunReturns ==
  [][\A r \in Runs :
       /\ (run[r].pc = "boundary" /\ event /\ run'[r] # run[r]
             /\ run[r].ii <= Len(Catalog(ranks[run[r].ci])))
            => /\ run'[r].pc = "return" /\ run'[r].outcome = "cancelled"
               /\ run'[r].notes = run[r].notes
               /\ UNCHANGED <<storeVars, subs>>
       /\ (run[r].pc = "return" /\ run'[r] # run[r])
            => /\ run'[r] = IdleRun
               /\ UNCHANGED <<storeVars, subs>>]_vars

\* C8, its case: a run returned as cancelled after it had added an item, whose
\* record is in the history.
C8_Witness ==
  \E r \in Runs :
    /\ run[r].pc = "return" /\ run[r].outcome = "cancelled"
    /\ run[r].added # <<>>
    /\ is_processed(KeyOf(run[r].added[1]))

\* C9: a run that was in flight when the host asked for a stop goes from its
\* next item boundary to its return: it processes no item after it, however
\* the run was started.
C9_StopRequestStopsRun ==
  [][\A r \in Runs :
       (stopReq[r] /\ run[r].pc = "boundary" /\ run'[r] # run[r]
          /\ run[r].ii <= Len(Catalog(ranks[run[r].ci])))
         => run'[r].pc = "return"]_vars

\* C10: at no time are two runs of the plugin in flight.
C10_AtMostOneRun ==
  Cardinality({r \in Runs : Active(r)}) <= 1

\* C11: when two runs process the same item, the existence checks catch the
\* duplicate: add is not called for a media an earlier add has subscribed
\* already, and no HistoryRecord is appended for a key the history has a
\* record of already.
C11_DuplicateCaughtByChecks ==
  [][\A r \in Runs :
       /\ (run[r].pc = "add" /\ run'[r] # run[r]) => CurId(r) \notin subs
       /\ (run[r].pc = "save_put" /\ run'[r].pc = "boundary")
            => ~is_processed(KeyOf(CurId(r)))]_vars

\* C12: an item that a run registered with the backend and recorded, with no
\* clear since, is stopped at the novelty check when a run meets it again: the
\* run makes no identity resolution (and so no add and no notification) for it.
C12_SecondRunShortCircuits ==
  [][\A r \in Runs :
       (run[r].pc = "check" /\ CurId(r) \in subs
          /\ KeyOf(CurId(r)) \in recorded /\ run'[r] # run[r])
         => run'[r].pc # "recognize"]_vars

\* C13 as claimed: however the pipeline ends for an item that passed the
\* filter and the novelty check (unresolved, in library, subscribed, add
\* succeeded, rejected or raised), the item's key is processed afterwards, so
\* that a second invocation stops at the novelty check and add is called at
\* most once.
C13_EveryOutcomeShortCircuits ==
  [][\A r \in Runs :
       (run[r].pc \in {"recognize", "exist", "exist_sub", "add", "save_get",
                       "save_put", "record"}
          /\ run'[r].pc \in {"boundary", "fetch", "return"})
         => IF plugin = "douban"
              THEN \E n \in 1..Len(history') :
                     history'[n].unique = KeyOf(CurId(r))
              ELSE KeyOf(CurId(r)) \in processed_ids']_vars

\* C13, amended: the pipeline ends with the item's key processed when it ends
\* in the recording (DoubanRank: add did not raise and the history was saved;
\* TmdbTrendsSubscribe: the item was subscribed already or add gave an id),
\* and with the store as it was after every other outcome; and an invocation
\* on an item whose key is processed stops at the novelty check, so that add
\* is not called again.
C13_RecordedOutcomeShortCircuits ==
  [][\A r \in Runs :
       /\ (run[r].pc \in {"recognize", "exist", "exist_sub", "add", "save_get",
                          "save_put", "record"}
             /\ run'[r].pc \in {"boundary", "fetch", "return"})
            => IF run[r].pc = "record"
                    \/ (run[r].pc = "save_put" /\ run'[r].pc = "boundary")
                 THEN IF plugin = "douban"
                        THEN \E n \in 1..Len(history') :
                               history'[n].unique = KeyOf(CurId(r))
                        ELSE KeyOf(CurId(r)) \in processed_ids'
                 ELSE UNCHANGED storeVars
       /\ (run[r].pc = "check" /\ run'[r] # run[r]
             /\ IF plugin = "douban" THEN is_processed(KeyOf(CurId(r)))
                ELSE KeyOf(CurId(r)) \in processed_ids)
            => run'[r].pc \in {"boundary", "fetch"}]_vars

\* C13, its case: a run is at the novelty check of an item for the second
\* time, having added the item in an earlier category, with the key processed.
C13_Witness ==
  \E r \in Runs :
    /\ run[r].pc = "check" /\ run[r].ci = 2
    /\ \E n \in 1..Len(run[r].added) : run[r].added[n] = CurId(r)
    /\ IF plugin = "douban" THEN is_processed(KeyOf(CurId(r)))
       ELSE KeyOf(CurId(r)) \in processed_ids

\* C14 (DoubanRank, the plugin with HistoryRecords): every item a run puts on
\* its summary gets its HistoryRecord, also when the save raises; and a run
\* that ends with notifications on, having added items, has sent exactly one
\* notification, which lists exactly these items, also when it ends by
\* cancellation.
C14_NotifiedAreTheRecorded ==
  [][\A r \in Runs :
       plugin = "douban" =>
         /\ (run[r].pc \in {"save_get", "save_put"}
               /\ run'[r].pc \notin {"save_get", "save_put"})
              => \E n \in 1..Len(history') :
                   history'[n].unique = KeyOf(CurId(r))
         /\ (run[r].pc \notin {"idle", "return"} /\ run'[r].pc = "return"
               /\ notify /\ run[r].added # <<>>)
              => run'[r].notes = <<run[r].added>>]_vars

\* C15: when the library check has answered that the item exists, the run
\* leaves the item whatever the subscription check would answer: it goes on to
\* the next item without a call of add, without a summary entry and without a
\* change of the subscriptions, the history or the processed keys.
C15_LibraryHitNeverAdds ==
  [][\A r \in Runs :
       (run[r].pc = "exist_sub" /\ run[r].exist_flag /\ run'[r] # run[r])
         => /\ run'[r] = NextItem(r)
            /\ UNCHANGED <<subs, storeVars>>]_vars

\* C15, its case: the library check of an item has answered that it exists.
C15_Witness ==
  \E r \in Runs :
    run[r].pc = "exist_sub" /\ run[r].exist_flag /\ CurId(r) \notin subs

\* C16: __recognize_media makes its second recognition, by title and year,
\* exactly when its first step gave no media (it found nothing, raised or was
\* skipped), and then gives what the second recognition gives; when the first
\* step gave a media it gives that media without a second recognition.
C16_FallbackExactlyWhenNeeded ==
  call.fn = "recognize_media" =>
    IF call.step1 = "media"
      THEN ret = [mediainfo |-> "media", fallback |-> FALSE]
      ELSE ret = [mediainfo |-> call.step2, fallback |-> TRUE]

\* C16, its case: the first step raised and the second recognition gave the
\* media.
C16_Witness ==
  /\ call.fn = "recognize_media" /\ call.step1 = "raise"
  /\ ret = [mediainfo |-> "media", fallback |-> TRUE]

\* C17: the identity resolution of an item never raises to the run: it gives
\* a media, and the run goes on to the existence checks of the item, or
\* nothing, and the run skips the item and goes on with the next one.
C17_ResolverNeverRaises ==
  [][\A r \in Runs :
       (run[r].pc = "recognize" /\ run'[r] # run[r])
         => \/ run'[r] = [run[r] EXCEPT !.pc = "exist"]
            \/ run'[r] = NextItem(r)]_vars

\* C18: a clear leaves the store of processed keys empty.  DoubanRank: when
\* an init_plugin has finished on a configuration with clear_history set, the
\* history is empty, whether or not the plugin is enabled.
\* TmdbTrendsSubscribe: when clear_cache has cleared, the set is empty and the
\* file is gone, so that loading it again gives the empty set.
C18_ClearEmptiesStore ==
  [][/\ (plugin = "douban" /\ hostpc' = "idle" /\ clear_history'
           /\ (hostpc = "init" \/ cfgVars' # cfgVars))
          => history' = <<>>
     /\ (plugin = "tmdb" /\ recorded # {} /\ recorded' = {})
          => processed_ids' = {} /\ ~file_exists' /\ file_lines' = {}]_vars

C20_OmittedRatingIsZero ==
  (call.fn = "filter" /\ call.field.kind \in Omitted /\ call.threshold > 0)
    => ret.outcome = "skip"

\* C21: an item rated below the (positive) threshold is left at the rating
\* filter, the first step of the loop body in both plugins: the run goes on to
\* the next item of the category with no lookup of the store (which, in
\* DoubanRank, could raise and end the category), no identity resolution, no
\* existence check and no add, and nothing is stored or subscribed.
C21_FilterIsFirstStep ==
  [][\A r \in Runs :
       (run[r].pc = "check" /\ run'[r] # run[r]
          /\ Vote > 0 /\ Item(CurId(r)).rate < Vote)
         => /\ run'[r] = NextItem(r)
            /\ UNCHANGED <<storeVars, subs>>]_vars

\* C21, its case: a run has gone past the low-rated first item of category 2
\* and is at the boundary of the item after it.
C21_Witness ==
  \E r \in Runs :
    /\ run[r].pc = "boundary" /\ ranks[run[r].ci] = 2 /\ run[r].ii = 2
    /\ Vote > 0 /\ Item(Catalog(2)[1]).rate < Vote

\* C22: a fetch never raises to its caller, and on a request that failed, no
\* response, a status other than 200, or a body that cannot be parsed or has
\* an unexpected shape, it returns the empty sequence, and the run goes on
\* with its next category.
C22_FetchFailsSoftly ==
  call.fn = "fetch" =>
    /\ ~ret.raised
    /\ (call.res.transport # "ok" \/ call.res.body \in MalformedBodies)
         => ret.outcome = "empty" /\ ret.caller = "next_category"

\* C23: a delete_history call whose apikey is not the API token returns a
\* failure result and leaves the stored history as it is: it neither reads
\* nor saves the store.
C23_WrongKeyNoMutation ==
  (call.fn = "delete_history" /\ call.apikey # API_TOKEN)
    => /\ ret.outcome = "failure"
       /\ ~ret.get_data /\ ~ret.save_data
       /\ ret.stored = call.stored

\* C23, its case: a call with a wrong apikey for the key of a stored record.
C23_Witness ==
  /\ call.fn = "delete_history" /\ call.apikey # API_TOKEN
  /\ \E n \in 1..Len(call.stored) : call.stored[n].unique = call.key
  /\ ret.outcome = "failure"

C25_KeyOnlyAfterRegistration ==
  [][\A r \in Runs :
       (run[r].pc \in {"save_put", "record"} /\ run'[r] # run[r]
          /\ IF plugin = "douban"
               THEN /\ ~is_processed(KeyOf(CurId(r)))
                    /\ \E n \in 1..Len(history') :
                         history'[n].unique = KeyOf(CurId(r))
               ELSE /\ KeyOf(CurId(r)) \notin processed_ids
                    /\ KeyOf(CurId(r)) \in processed_ids')
         => run[r].addres = "ok"]_vars

\* C26: a run goes through its items one at a time, and when it leaves an
\* item whose subscription it has registered (for the next item, the next
\* category or its return), the key of the item is in the durable store (the
\* saved history; the set and the file processed_ids.txt), so that a later
\* occurrence of the key in the same run is stopped at the novelty check.
C26_DurableBeforeNextItem ==
  [][\A r \in Runs :
       (run[r].pc \in {"save_get", "save_put", "record"} /\ run[r].addres = "ok"
          /\ run'[r].pc \in {"boundary", "fetch", "return"})
         => IF plugin = "douban"
              THEN \E n \in 1..Len(history') :
                     history'[n].unique = KeyOf(CurId(r))
              ELSE /\ KeyOf(CurId(r)) \in processed_ids'
                   /\ file_exists' /\ KeyOf(CurId(r)) \in file_lines']_vars

\* C27: for each built-in html category (movie_top250, movie_weekly) the
\* marker test on the category's URL selects an extraction pattern, so that a
\* page fetched with success that holds entries in the layout of that
\* category's page gives these entries as items.
C27_HtmlPatternSelected ==
  (/\ call.fn = "fetch" /\ plugin = "douban" /\ rank_type(call.key) = "html"
   /\ call.res.transport = "ok" /\ call.res.n >= 1
   /\ call.res.body = IF call.key = "movie_top250" THEN "top250" ELSE "chart")
    => /\ html_pattern(rank_url(call.key)) # "none"
       /\ ret.outcome = "items" /\ ret.n = call.res.n

\* C28: an init_plugin on a configuration with the run-once flag set starts
\* one immediate run, whether or not the plugin is enabled, and leaves the
\* flag cleared in the plugin and in the persisted configuration (so that the
\* next load, of the persisted configuration, starts no immediate run); an
\* init_plugin on a configuration with the flag unset starts no immediate run.
C28_RunOnceNow ==
  call.fn = "init_plugin" =>
    IF call.config.onlyonce
      THEN ret.outcome = "run" /\ ~ret.onlyonce /\ ~ret.persisted
      ELSE ret.outcome = "no_run"

\* C29: no update of the history is lost, however runs, delete_history calls
\* and clears interleave: a save of __save_history leaves the store as the
\* append of its record to the store as it is then would (no record another
\* operation appended since is dropped, none it removed comes back), and a
\* save of delete_history leaves the store as the removal of the records of
\* one key from the store as it is then would.
C29_NoLostUpdate ==
  [][/\ \A r \in Runs :
          (run[r].pc = "save_put" /\ run'[r].pc = "boundary")
            => history' = LastN(Append(history, HistoryRecord(CurId(r))),
                                HistoryCap)
     /\ (del.pc = "save" /\ del'.pc = "idle" /\ history' = del.historys)
          => \E key \in Keys :
               history' = SelectSeq(history, LAMBDA h : h.unique # key)]_vars

\* C30: whenever no stop_service of DoubanRank is in progress (each one has
\* returned, also the one whose scheduler.shutdown() raised), the event is
\* clear, so that a run started then is not ended by it at its first item.
C30_EventClearAfterStop ==
  (plugin = "douban" /\ hostpc = "idle") => ~event

\* C31: a delete_history call with the API token reports success and saves
\* the stored list without the records of the given key: no record of the key
\* is left, every other record is kept as it is and in the order it was in,
\* and when no record has the key the list is saved as it was.
C31_DeleteAllAndOnlyKey ==
  (call.fn = "delete_history" /\ call.apikey = API_TOKEN)
    => LET kept == {n \in 1..Len(call.stored) : call.stored[n].unique # call.key}
           nth(i) == CHOOSE n \in kept : Cardinality({m \in kept : m < n}) = i - 1
       IN /\ ret.outcome = "success"
          /\ Len(ret.stored) = Cardinality(kept)
          /\ \A i \in 1..Len(ret.stored) : ret.stored[i] = call.stored[nth(i)]
          /\ kept = 1..Len(call.stored) => ret.stored = call.stored

\* C31, its case: of two stored records the call removed the one of the key
\* and kept the other.
C31_Witness ==
  /\ call.fn = "delete_history" /\ call.apikey = API_TOKEN
  /\ Len(call.stored) = 2
  /\ call.stored[1].unique = call.key /\ call.stored[2].unique # call.key
  /\ ret.outcome = "success" /\ ret.stored = <<call.stored[2]>>

====
